---- MODULE Spec2Model ----
(***************************************************************************)
(* A model of pbjam/guess_epsilon.py: the class `epsilon`, its constructor, *)
(* its call operator (methods "Vrard" and "KDE"), kde_predict, and the pure *)
(* helpers vrard, vrard_predict, to_log10, obs_to_log, normal, likelihood.  *)
(*                                                                         *)
(* Numbers.  Observed values and sampled values are whole numbers; dnu,    *)
(* numax and Teff are powers of ten wherever the code takes their log10,   *)
(* so that log10 is exact.  Epsilon estimates of the Vrard relation are in *)
(* thousandths (0.601 is 601).  Means are exact fractions <<num, den>> in  *)
(* lowest terms, and a standard deviation is given by its square.  A       *)
(* log-space uncertainty and a log-posterior keep ln(10) and log(density)  *)
(* symbolic.                                                               *)
(***************************************************************************)
EXTENDS Integers, Sequences, FiniteSets, TLC

VARIABLES
    inst,        \* TRUE once a constructor call has returned an instance
    method,      \* self.method
    verbose,     \* self.verbose
    obs,         \* self.obs
    samples,     \* self.samples
    prior_data,  \* self.prior_data
    kde,         \* self.kde
    log_obs,     \* self.log_obs
    p0,          \* kde_sampler: the walkers' initial positions of the last run
    chain,       \* kde_sampler: sampler.chain of the last run
    data_file,   \* what is stored at the path self.data_file
    op,          \* the operation that ran last
    arg,         \* its arguments
    ret,         \* what it returned or raised
    emitted      \* what it printed or warned, in order

self == <<inst, method, verbose, obs, samples, prior_data, kde, log_obs>>
vars == <<inst, method, verbose, obs, samples, prior_data, kde, log_obs,
          p0, chain, data_file, op, arg, ret, emitted>>

----------------------------------------------------------------------------
(* Bounds of the model *)

\* the largest iteration count (niter) a call is given
MaxIter == 2
\* the longest array given to vrard, and the largest npts of vrard_predict
MaxPts == 3

----------------------------------------------------------------------------
(* Arithmetic *)

Abs(x) == IF x < 0 THEN 0 - x ELSE x

RECURSIVE GCD(_, _)
GCD(a, b) == IF b = 0 THEN a ELSE GCD(b, a % b)

\* the fraction n/d (d # 0) in lowest terms with a positive denominator
Rat(n, d) ==
    LET g == GCD(Abs(n), Abs(d))
        s == IF d < 0 THEN 0 - 1 ELSE 1
    IN  <<(s * n) \div g, (s * d) \div g>>

RatAdd(p, q) == Rat(p[1] * q[2] + q[1] * p[2], p[2] * q[2])
RatMul(p, q) == Rat(p[1] * q[1], p[2] * q[2])

RECURSIVE SumSeq(_)
SumSeq(s) == IF s = <<>> THEN 0 ELSE Head(s) + SumSeq(Tail(s))

\* np.log10, exact on the powers of ten (its whole part elsewhere; the model
\* takes the log10 of powers of ten only)
RECURSIVE Log10(_)
Log10(x) == IF x < 10 THEN 0 ELSE 1 + Log10(x \div 10)

\* 10**k for a whole k >= 0
RECURSIVE Pow10(_)
Pow10(k) == IF k = 0 THEN 1 ELSE 10 * Pow10(k - 1)

\* ndarray.mean() of a non-empty array; nan (with a warning) of an empty one
Mean(xs) == IF xs = <<>> THEN [nan |-> TRUE] ELSE [q |-> Rat(SumSeq(xs), Len(xs))]

\* the sum of (xs[i] - xs[j])^2 over the pairs i < j
RECURSIVE PairSq(_)
PairSq(xs) ==
    IF xs = <<>> THEN 0
    ELSE LET h == Head(xs)
             t == Tail(xs)
         IN  SumSeq([j \in 1..Len(t) |-> (h - t[j]) * (h - t[j])]) + PairSq(t)

\* ndarray.std(): the root of the mean squared deviation from the mean.  The
\* result is given by its square, and the mean squared deviation
\* sum((x - mean)^2)/N is computed in the equal form
\* sum_{i<j} (x_i - x_j)^2 / N^2, which stays within the integer range.
Std(xs) ==
    IF xs = <<>> THEN [nan |-> TRUE]
    ELSE [sq |-> Rat(PairSq(xs), Len(xs) * Len(xs))]

----------------------------------------------------------------------------
(* Values of attributes *)

\* the Python list []
EmptyList == [list |-> <<>>]
\* an attribute __init__ does not set
Unset == [unset |-> TRUE]
\* a (rows x 5) numpy array
NdArray(rows) == [ndarray |-> rows]
\* no operation has run / the operation returned nothing
None == [none |-> TRUE]
Raised(e) == [raised |-> e]

----------------------------------------------------------------------------
(* Numbers with a symbolic ln(10): Num(n, d, k) is n / (d * ln(10)^k) *)

Num(n, d, k) == [n |-> n, d |-> d, k |-> k]
\* a plain whole number as an uncertainty
Plain(x) == Num(x, 1, 0)
\* a [value, uncertainty] pair as a caller writes it
Pair(x, xerr) == <<x, Plain(xerr)>>

----------------------------------------------------------------------------
(* Program constants *)

\* the Vrard coefficients, in thousandths
vrard_dict == [alpha |-> 601, beta |-> 632]
\* thousandths per unit
PerUnit == 1000
\* the fixed uncertainty 0.1 of the Vrard relation, in thousandths
VrardUnc == 100
\* the uncertainty 1.0 returned outside the giants' range, in thousandths
DwarfUnc == 1000
\* the bound on numax[0] above which the Vrard relation is not trusted
GiantNumax == 288
\* kde_sampler's nwalkers, which the call never overrides
nwalkers == 20
\* ndim = len(x0)
ndim == 5
\* the columns the density model is built over, in order
cols == <<"log_dnu", "log_numax", "log_Teff", "bp_rp", "eps">>
\* the bandwidths, in units of 1e-8
bw == <<1419127, 2364931, 995797, 11237306, 4371931>>
ValidMethods == {"Vrard", "KDE"}

----------------------------------------------------------------------------
(* The prior data *)

CsvCols == {"dnu", "numax", "Teff", "bp_rp", "eps"}
Row(d, nm, t, c, e) == [dnu |-> d, numax |-> nm, Teff |-> t, bp_rp |-> c, eps |-> e]

\* Two reference tables; a missing value of a row is a missing field.
FileA ==
    [rows |-> << Row(100, 1000, 1000, 1, 1),
                 [dnu |-> 10, numax |-> 100, Teff |-> 1000, bp_rp |-> 1],
                 Row(10, 100, 1000, 2, 1) >>]
FileB == [rows |-> << Row(10, 100, 1000, 1, 2), Row(10, 100, 1000, 1, 2) >>]
DataFiles == {FileA, FileB}

\* DataFrame.dropna(): the rows with every value present
DropNa(rows) == SelectSeq(rows, LAMBDA r : DOMAIN r = CsvCols)

\* read_prior_data, given the table read from self.data_file
ReadPriorData(file) ==
    LET kept == DropNa(file.rows)
    IN  [frame |->
            [i \in 1..Len(kept) |->
                kept[i] @@ [log_dnu   |-> Log10(kept[i].dnu),
                            log_numax |-> Log10(kept[i].numax),
                            log_Teff  |-> Log10(kept[i].Teff)]]]

\* make_kde: KDEMultivariate(data = prior_data[cols].values, 'ccccc', bw)
MakeKde(pd) ==
    [data     |-> [i \in 1..Len(pd.frame) |->
                      [c \in 1..ndim |-> pd.frame[i][cols[c]]]],
     var_type |-> "ccccc",
     bw       |-> bw]

\* What a call builds from each table that can be read, evaluated once
Built ==
    [f \in DataFiles |->
        LET pd == ReadPriorData(f) IN [prior_data |-> pd, kde |-> MakeKde(pd)]]

\* a call that keeps the prior data an earlier call loaded
RebuildCached(old, file) ==
    IF old = Unset THEN Built[file] ELSE [prior_data |-> old, kde |-> MakeKde(old)]

\* read_prior_data() then make_kde() of a call: `old` is the instance's
\* prior_data before the call, which the code does not look at
Rebuild(old, file) == Built[file]

\* kde.pdf(p), in units of a kernel's peak.  The bandwidths are far below the
\* spacing of the whole-number grid the model's values lie on, so that a
\* kernel counts at its own grid point and underflows to zero elsewhere.
Pdf(k, p) == Rat(Cardinality({i \in DOMAIN k.data : k.data[i] = p}), Len(k.data))

----------------------------------------------------------------------------
(* Log-probabilities: Fin(lg, a, b) is log(lg) + a + b * ln(10)^2, with lg, a *)
(* and b fractions; NegInf and NaN are the floats -inf and nan.             *)

Fin(lg, a, b) == [kind |-> "fin", log |-> lg, a |-> a, b |-> b]
NegInf == [kind |-> "-inf"]
NaN == [kind |-> "nan"]
Zero == Fin(<<1, 1>>, <<0, 1>>, <<0, 1>>)

\* float addition
Plus(u, v) ==
    IF u.kind = "nan" \/ v.kind = "nan" THEN NaN
    ELSE IF u.kind = "-inf" \/ v.kind = "-inf" THEN NegInf
    ELSE Fin(RatMul(u.log, v.log), RatAdd(u.a, v.a), RatAdd(u.b, v.b))

\* np.log of a density >= 0: -inf (and a warning) at zero
NpLog(dens) == IF dens[1] = 0 THEN NegInf ELSE Fin(dens, <<0, 1>>, <<0, 1>>)

\* normal with a zero uncertainty taken for "unconstrained" too
normal_le(y, mu, sigma) ==
    IF sigma.n <= 0 THEN Zero
    ELSE LET v == Rat(0 - ((y - mu) * (y - mu) * sigma.d * sigma.d),
                      2 * sigma.n * sigma.n)
         IN  IF sigma.k = 0 THEN Fin(<<1, 1>>, v, <<0, 1>>)
             ELSE Fin(<<1, 1>>, <<0, 1>>, v)

\* normal(y, mu, sigma), y a numpy float: a division by zero gives -inf, or
\* nan when the numerator is zero too
normal(y, mu, sigma) ==
    IF sigma.n < 0 THEN Zero
    ELSE IF sigma.n = 0 THEN (IF y = mu THEN NaN ELSE NegInf)
    ELSE LET v == Rat(0 - ((y - mu) * (y - mu) * sigma.d * sigma.d),
                      2 * sigma.n * sigma.n)
         IN  IF sigma.k = 0 THEN Fin(<<1, 1>>, v, <<0, 1>>)
             ELSE Fin(<<1, 1>>, <<0, 1>>, v)

\* likelihood(p), reading self.kde and self.log_obs
likelihood(k, lo, p) ==
    LET lp  == NpLog(Pdf(k, p))
        ld0 == Zero
        ld1 == Plus(ld0, normal(p[1], lo.dnu[1], lo.dnu[2]))
        ld2 == Plus(ld1, normal(p[2], lo.numax[1], lo.numax[2]))
        ld3 == Plus(ld2, normal(p[3], lo.teff[1], lo.teff[2]))
        ld4 == Plus(ld3, normal(p[4], lo.bp_rp[1], lo.bp_rp[2]))
    IN  Plus(lp, ld4)

----------------------------------------------------------------------------
(* Transform utilities *)

\* to_log10 transforming a zero uncertainty too
to_log10_ge(x, xerr) ==
    IF xerr.n >= 0
    THEN <<Log10(x), Num(xerr.n, xerr.d * x, xerr.k + 1)>>
    ELSE <<x, xerr>>

\* to_log10(x, xerr)
to_log10(x, xerr) ==
    IF xerr.n > 0
    THEN <<Log10(x), Num(xerr.n, xerr.d * x, xerr.k + 1)>>
    ELSE <<x, xerr>>

\* obs_to_log(obs): reads self.obs (o), not its argument (given)
obs_to_log(o, given) ==
    [dnu   |-> to_log10(o.dnu[1], o.dnu[2]),
     numax |-> to_log10(o.numax[1], o.numax[2]),
     teff  |-> to_log10(o.teff[1], o.teff[2]),
     bp_rp |-> o.bp_rp]

----------------------------------------------------------------------------
(* The Vrard relation *)

\* a float, and a one-dimensional array of floats
Scalar(x) == [scalar |-> x]
Array(xs) == [array |-> xs]

VrardEps(x) == vrard_dict.alpha + vrard_dict.beta * Log10(x)

\* vrard(dnu): dnu is a [dnu, dnu_uncertainty] pair or an array of dnu values
vrard(dnu) ==
    IF Len(dnu) = 2
    THEN <<Scalar(VrardEps(dnu[1])), Scalar(VrardUnc)>>
    ELSE <<Array([i \in 1..Len(dnu) |-> VrardEps(dnu[i])]),
           Array([i \in 1..Len(dnu) |-> VrardUnc])>>

\* element i of a float or an array broadcast to a given length
At(v, i) == IF "scalar" \in DOMAIN v THEN v.scalar ELSE v.array[i]

\* vrard_predict(n, dnu, npts), given the normal draws: dnu_mc, the npts
\* values drawn around dnu[0], and z, the npts standard normal draws scaled
\* by eps_unc.  Frequencies are in thousandths.
vrard_predict(n, dnu_mc, z) ==
    LET npts   == Len(dnu_mc)
        e      == vrard(dnu_mc)
        eps_mc == [i \in 1..npts |-> At(e[1], i) + z[i] * At(e[2], i)]
        frequencies_mc ==
            [j \in 1..Len(n) |->
                [i \in 1..npts |-> (n[j] * PerUnit + eps_mc[i]) * dnu_mc[i]]]
    IN  <<Array([j \in 1..Len(n) |-> Mean(frequencies_mc[j])]),
          Array([j \in 1..Len(n) |-> Std(frequencies_mc[j])])>>

----------------------------------------------------------------------------
(* The ensemble sampler driver *)

\* The random streams the sampler and the jitter draw from
Seeds == {1, 2}

\* One draw of np.random.rand, in thousandths: walker w, dimension d of the
\* random stream `seed`.
Rand(seed, w, d) == (331 * seed + 47 * w + 113 * d) % PerUnit

\* The position emcee records for walker w after step s, on the stream `seed`:
\* <<log_dnu, log_numax, log_teff, bp_rp, eps>>.
Walk(seed, w, s) ==
    <<(seed + w + s) % 2, 2, 3, (seed + w) % 3, 1 + ((w + seed * s) % 2)>>

\* x0
X0(lo) == <<lo.dnu[1], lo.numax[1], lo.teff[1], lo.bp_rp[1], 1>>

\* walkers jittered by np.random.rand(ndim) without the factor 1e-3
P0_unscaled(lo, seed) ==
    [w \in 1..nwalkers |->
        [d \in 1..ndim |->
            X0(lo)[d] * PerUnit * PerUnit + Rand(seed, w, d) * PerUnit]]

\* p0 = [np.array(x0) + np.random.rand(ndim)*1e-3 for i in range(nwalkers)],
\* in millionths
P0(lo, seed) ==
    [w \in 1..nwalkers |->
        [d \in 1..ndim |-> X0(lo)[d] * PerUnit * PerUnit + Rand(seed, w, d)]]

\* sampler.run_mcmc(p0, niter): sampler.chain, walker by step
RunMcmc(seed, niter) ==
    [w \in 1..nwalkers |-> [s \in 1..niter |-> Walk(seed, w, s)]]

\* a slice that discards no burn-in
KeptStepsAll(niter, burnin) == [k \in 1..niter |-> k]

\* the steps chain[:, burnin:, :] keeps, as indices into 1..niter
KeptSteps(niter, burnin) ==
    [k \in 1..(IF burnin < niter THEN niter - burnin ELSE 0) |-> burnin + k]

\* chain[:, burnin:, :].reshape((-1, ndim))
Flatten(ch, niter, burnin) ==
    LET kept == KeptSteps(niter, burnin)
        m    == Len(kept)
    IN  [r \in 1..(nwalkers * m) |->
            ch[((r - 1) \div m) + 1][kept[((r - 1) % m) + 1]]]

\* column c (counted from 0, as the code counts) of an array of rows
Column(rows, c) == [i \in 1..Len(rows) |-> rows[i][c + 1]]

\* [self.samples[:,4].mean(), self.samples[:,4].std()]
Summary(rows) == <<Mean(Column(rows, 4)), Std(Column(rows, 4))>>

----------------------------------------------------------------------------
(* The mode frequency predictor *)

\* self.samples == []: true of the list [] alone; numpy answers an
\* elementwise comparison of shapes that do not match with False
IsEmptyList(smp) == smp = EmptyList

\* the frequencies of radial order nn over the pool
Frequencies(rows, nn) ==
    LET dnu == Column(rows, 0)
        eps == Column(rows, 3)
    IN  [i \in 1..Len(rows) |-> (nn + eps[i]) * Pow10(dnu[i])]

\* the per-order mean and standard deviation over a pool
PoolPrediction(rows, n) ==
    <<Array([j \in 1..Len(n) |-> Mean(Frequencies(rows, n[j]))]),
      Array([j \in 1..Len(n) |-> Std(Frequencies(rows, n[j]))])>>

\* kde_predict without its guard: indexing the list [] raises
kde_predict_unguarded(smp, n) ==
    IF IsEmptyList(smp)
    THEN [ret |-> Raised("TypeError"), emitted |-> <<>>]
    ELSE [ret |-> PoolPrediction(smp.ndarray, n), emitted |-> <<>>]

\* kde_predict(n): what it returns and what it prints
kde_predict(smp, n) ==
    IF IsEmptyList(smp)
    THEN [ret     |-> <<Scalar(0 - 1), Scalar(0 - 1)>>,
          emitted |-> <<"Need to run the sampler first">>]
    ELSE [ret |-> PoolPrediction(smp.ndarray, n), emitted |-> <<>>]

\* What the sampler produces on each stream, for each niter and burnin of the
\* model.  The table is evaluated once.
Sampled ==
    [seed \in Seeds |->
        [niter \in 1..MaxIter |->
            [burnin \in 0..niter |->
                LET ch   == RunMcmc(seed, niter)
                    rows == Flatten(ch, niter, burnin)
                IN  [chain |-> ch, rows |-> rows, summary |-> Summary(rows)]]]]

----------------------------------------------------------------------------
(* Inputs *)

Methods == {"Vrard", "KDE", "MCMC"}

Observation(d, nm, t, c) == [dnu |-> d, numax |-> nm, teff |-> t, bp_rp |-> c]

\* The observations a call is given; the first is the call's defaults.
Observations ==
    { Observation(Pair(1, 0 - 1), Pair(1, 0 - 1), Pair(1, 0 - 1), Pair(1, 0 - 1)),
      Observation(Pair(100, 1), Pair(1000, 10), Pair(1000, 100), Pair(1, 1)),
      Observation(Pair(10, 0), Pair(288, 0 - 1), Pair(1, 0 - 1), Pair(2, 1)),
      Observation(Pair(100, 2), Pair(289, 0), Pair(1000, 100), Pair(1, 0 - 1)) }

\* The radial orders asked of kde_predict
RadialOrders == { <<0>>, <<1, 2>> }

\* The candidate vectors the log-posterior is evaluated at
Candidates == { <<2, 3, 3, 1, 1>>, <<1, 2, 3, 2, 1>>, <<1, 2, 3, 1, 2>>, <<0, 1, 0, 1, 1>> }

----------------------------------------------------------------------------
(* The operations *)

Init ==
    /\ inst = FALSE
    /\ method = ""
    /\ verbose = FALSE
    /\ obs = Unset
    /\ samples = Unset
    /\ prior_data = Unset
    /\ kde = Unset
    /\ log_obs = Unset
    /\ p0 = <<>>
    /\ chain = <<>>
    /\ data_file \in DataFiles
    /\ op = ""
    /\ arg = None
    /\ ret = None
    /\ emitted = <<>>

\* a constructor that takes any method
AcceptsAny(m) == TRUE

\* the test __init__ makes of its method
Accepts(m) == m \in ValidMethods

\* epsilon(method, verbose)
epsilon_init(m, v) ==
    /\ ~inst
    /\ op' = "__init__"
    /\ arg' = [method |-> m, verbose |-> v]
    /\ emitted' = <<>>
    /\ IF ~Accepts(m)
       THEN /\ ret' = Raised("ValueError")
            /\ UNCHANGED self
       ELSE /\ ret' = None
            /\ inst' = TRUE
            /\ method' = m
            /\ obs' = EmptyList
            /\ samples' = EmptyList
            /\ verbose' = v
            /\ UNCHANGED <<prior_data, kde, log_obs>>
    /\ UNCHANGED <<p0, chain, data_file>>

\* what a verbose instance prints
Says(v, lines) == IF v THEN lines ELSE <<>>

\* the Vrard branch with the bound itself taken for a dwarf
CallVrardGe(dnu, numax) ==
    IF numax[1] >= GiantNumax
    THEN [ret     |-> <<vrard(dnu)[1], Scalar(DwarfUnc)>>,
          emitted |-> <<"Vrard method really only valid for Giants.">>]
    ELSE [ret |-> vrard(dnu), emitted |-> <<>>]

\* the Vrard branch of __call__: what it returns and what it warns
CallVrard(dnu, numax) ==
    IF numax[1] > GiantNumax
    THEN [ret     |-> <<vrard(dnu)[1], Scalar(DwarfUnc)>>,
          emitted |-> <<"Vrard method really only valid for Giants.">>]
    ELSE [ret |-> vrard(dnu), emitted |-> <<>>]

\* self(dnu, numax, teff, bp_rp, niter, burnin); seed is the random stream
\* the sampler and the jitter draw from
epsilon_call(o, niter, burnin, seed) ==
    /\ inst
    /\ op' = "__call__"
    /\ arg' = [obs |-> o, niter |-> niter, burnin |-> burnin]
    /\ IF method = "Vrard"
       THEN /\ ret' = CallVrard(o.dnu, o.numax).ret
            /\ emitted' = CallVrard(o.dnu, o.numax).emitted
            /\ UNCHANGED <<self, p0, chain>>
       ELSE /\ obs' = o
            /\ LET lo  == obs_to_log(o, o)
                   run == Sampled[seed][niter][burnin]
               IN  /\ prior_data' = Rebuild(prior_data, data_file).prior_data
                   /\ log_obs' = lo
                   /\ kde' = Rebuild(prior_data, data_file).kde
                   /\ p0' = P0(lo, seed)
                   /\ chain' = run.chain
                   /\ samples' = NdArray(run.rows)
                   /\ ret' = run.summary
                   /\ emitted' = Says(verbose, <<"Reading in prior data",
                                                 "Building KDE",
                                                 "Running KDE sampler">>)
            /\ UNCHANGED <<inst, method, verbose>>
    /\ UNCHANGED data_file

\* self.kde_predict(n)
epsilon_kde_predict(n) ==
    /\ inst
    /\ op' = "kde_predict"
    /\ arg' = [n |-> n]
    /\ ret' = kde_predict(samples, n).ret
    /\ emitted' = kde_predict(samples, n).emitted
    /\ UNCHANGED <<self, p0, chain, data_file>>

\* self.likelihood(p), as the sampler evaluates it; before a KDE call has built
\* self.kde and self.log_obs the attributes do not exist
epsilon_likelihood(p) ==
    /\ inst
    /\ op' = "likelihood"
    /\ arg' = [p |-> p]
    /\ ret' = IF kde = Unset \/ log_obs = Unset
              THEN Raised("AttributeError")
              ELSE likelihood(kde, log_obs, p)
    /\ emitted' = <<>>
    /\ UNCHANGED <<self, p0, chain, data_file>>

\* the table at self.data_file is replaced
WriteDataFile(f) ==
    /\ f # data_file
    /\ data_file' = f
    /\ UNCHANGED <<self, p0, chain, op, arg, ret, emitted>>

Next ==
    \/ \E m \in Methods, v \in BOOLEAN : epsilon_init(m, v)
    \/ \E o \in Observations, niter \in 1..MaxIter, seed \in Seeds :
         \E burnin \in 0..niter : epsilon_call(o, niter, burnin, seed)
    \/ \E n \in RadialOrders : epsilon_kde_predict(n)
    \/ \E f \in DataFiles : WriteDataFile(f)

Spec == Init /\ [][Next]_vars

----------------------------------------------------------------------------
(* The Vrard relation called directly *)

\* the arrays of dnu values of length k
Arrays(S, k) == [1..k -> S]

DnuValues == {1, 10, 100}
\* the values a normal draw around dnu[0] takes, and the standard normal draws
DnuDraws == {1, 10}
NormalDraws == {0 - 1, 1}
VrardOrders == { <<0>>, <<0, 1>> }

\* self.vrard(dnu)
epsilon_vrard(dnu) ==
    /\ inst
    /\ op' = "vrard"
    /\ arg' = [dnu |-> dnu]
    /\ ret' = vrard(dnu)
    /\ emitted' = <<>>
    /\ UNCHANGED <<self, p0, chain, data_file>>

\* self.vrard_predict(n, dnu, npts), with the draws np.random.randn makes
epsilon_vrard_predict(n, dnu, dnu_mc, z) ==
    /\ inst
    /\ op' = "vrard_predict"
    /\ arg' = [n |-> n, dnu |-> dnu, npts |-> Len(dnu_mc), dnu_mc |-> dnu_mc, z |-> z]
    /\ ret' = vrard_predict(n, dnu_mc, z)
    /\ emitted' = <<>>
    /\ UNCHANGED <<self, p0, chain, data_file>>

\* a fresh instance
InitVrard ==
    /\ inst = TRUE
    /\ method \in ValidMethods
    /\ verbose = FALSE
    /\ obs = EmptyList
    /\ samples = EmptyList
    /\ prior_data = Unset
    /\ kde = Unset
    /\ log_obs = Unset
    /\ p0 = <<>>
    /\ chain = <<>>
    /\ data_file = FileA
    /\ op = "__init__"
    /\ arg = [method |-> method, verbose |-> verbose]
    /\ ret = None
    /\ emitted = <<>>

NextVrard ==
    \/ \E k \in 1..MaxPts : \E dnu \in Arrays(DnuValues, k) : epsilon_vrard(dnu)
    \/ \E n \in VrardOrders, npts \in 1..MaxPts :
         \E dnu_mc \in Arrays(DnuDraws, npts), z \in Arrays(NormalDraws, npts) :
            epsilon_vrard_predict(n, Pair(10, 1), dnu_mc, z)

SpecVrard == InitVrard /\ [][NextVrard]_vars

----------------------------------------------------------------------------
(* The log-posterior as the sampler evaluates it: the instance is inside its *)
(* first KDE call, after make_kde and the choice of p0                       *)

PairsOf(xs, errs) == {Pair(x, e) : x \in xs, e \in errs}

SampledObservations ==
    { Observation(d, nm, t, c) :
        d  \in PairsOf({100}, {0 - 1, 0, 1}),
        nm \in PairsOf({1000}, {0 - 1, 10}),
        t  \in PairsOf({1000}, {0 - 1, 100}),
        c  \in PairsOf({1}, {0 - 1, 0, 2}) }

InitLikelihood ==
    /\ inst = TRUE
    /\ method = "KDE"
    /\ verbose = FALSE
    /\ obs \in SampledObservations
    /\ samples = EmptyList
    /\ data_file \in DataFiles
    /\ prior_data = Rebuild(Unset, data_file).prior_data
    /\ kde = Rebuild(Unset, data_file).kde
    /\ log_obs = obs_to_log(obs, obs)
    /\ p0 \in {P0(log_obs, seed) : seed \in Seeds}
    /\ chain = <<>>
    /\ op = ""
    /\ arg = None
    /\ ret = None
    /\ emitted = <<>>

NextLikelihood == \E p \in Candidates : epsilon_likelihood(p)

SpecLikelihood == InitLikelihood /\ [][NextLikelihood]_vars

----------------------------------------------------------------------------
(* Properties *)

Sentinel == <<Scalar(0 - 1), Scalar(0 - 1)>>
HasPool == samples # EmptyList /\ samples # Unset
KdeCallDone == op = "__call__" /\ method = "KDE"

\* C1: a call on a "Vrard" instance with numax[0] > 288.0 warns and returns
\* alpha + beta*log10(dnu[0]) with uncertainty 1.0; with numax[0] <= 288.0
\* (288.0 included) it warns nothing and returns the same estimate with
\* uncertainty 0.1.
C1_VrardCall ==
    (op = "__call__" /\ method = "Vrard") =>
        LET est == Scalar(601 + 632 * Log10(arg.obs.dnu[1]))
        IN  IF arg.obs.numax[1] > 288
            THEN /\ ret = <<est, Scalar(1000)>>
                 /\ emitted = <<"Vrard method really only valid for Giants.">>
            ELSE /\ ret = <<est, Scalar(100)>>
                 /\ emitted = <<>>

C1_Witness ==
    /\ op = "__call__" /\ method = "Vrard"
    /\ arg.obs.numax[1] > 288
    /\ arg.obs.dnu[1] = 100
    /\ ret = <<Scalar(1865), Scalar(1000)>>
    /\ emitted # <<>>

\* C2: a constructor call with a method other than "Vrard" or "KDE" raises and
\* yields no instance; with "Vrard" or "KDE" it yields an instance of that
\* method whose observation and sample pool are empty.
C2_Construction ==
    /\ inst => method \in {"Vrard", "KDE"}
    /\ op = "__init__" =>
          IF arg.method \in {"Vrard", "KDE"}
          THEN /\ inst /\ ret = None /\ method = arg.method
               /\ obs = EmptyList /\ samples = EmptyList
          ELSE ~inst /\ ret = Raised("ValueError")

C2_Witness ==
    op = "__init__" /\ arg.method = "MCMC" /\ ~inst /\ ret = Raised("ValueError")

\* C3: kde_predict on an instance whose sample pool is still the empty list
\* (no KDE call has completed on it) returns (-1, -1), prints its diagnostic,
\* raises nothing, and changes no attribute of the instance.
C3_NotReady ==
    [][(op' = "kde_predict" /\ samples = EmptyList) =>
          /\ emitted' = <<"Need to run the sampler first">>
          /\ ret' = Sentinel
          /\ self' = self]_vars

C3_Witness ==
    /\ op = "kde_predict" /\ samples = EmptyList
    /\ ret = Sentinel /\ emitted = <<"Need to run the sampler first">>

\* the frequencies of radial order nn with eps read from pool column 4 and
\* log_dnu from pool column 0
FreqEps(rows, nn) ==
    [i \in 1..Len(rows) |-> (nn + rows[i][5]) * Pow10(rows[i][1])]

\* C4: on a non-empty pool kde_predict returns, for each radial order n, the
\* mean and the standard deviation over the pool of
\* (n + eps) * 10^log_dnu, eps being pool column 4 and log_dnu pool column 0.
C4_Claim ==
    (op = "kde_predict" /\ HasPool /\ samples.ndarray # <<>>) =>
        /\ Len(ret[1].array) = Len(arg.n) /\ Len(ret[2].array) = Len(arg.n)
        /\ \A j \in 1..Len(arg.n) :
              /\ ret[1].array[j] = Mean(FreqEps(samples.ndarray, arg.n[j]))
              /\ ret[2].array[j] = Std(FreqEps(samples.ndarray, arg.n[j]))

\* the draws of a vrard_predict call mapped one by one through the relation
ElementwiseFreq(a, nn) ==
    [i \in 1..a.npts |->
        (nn * 1000 + 601 + 632 * Log10(a.dnu_mc[i]) + a.z[i] * 100) * a.dnu_mc[i]]

\* C5: vrard of an array of dnu values of any length returns
\* alpha + beta*log10(dnu) element by element and an array of as many 0.1s, so
\* that vrard_predict works on npts estimates and npts uncertainties.
C5_Claim ==
    /\ op = "vrard" =>
          /\ ret[1] = Array([i \in 1..Len(arg.dnu) |-> 601 + 632 * Log10(arg.dnu[i])])
          /\ ret[2] = Array([i \in 1..Len(arg.dnu) |-> 100])
    /\ op = "vrard_predict" =>
          /\ ret[1] = Array([j \in 1..Len(arg.n) |-> Mean(ElementwiseFreq(arg, arg.n[j]))])
          /\ ret[2] = Array([j \in 1..Len(arg.n) |-> Std(ElementwiseFreq(arg, arg.n[j]))])

\* C6: after a KDE call with burnin < niter the pool has 20 * (niter - burnin)
\* rows of 5 columns, which are each walker's steps burnin+1 .. niter in order
\* (and so none of its first burnin steps), and the call returned the mean and
\* the standard deviation of pool column 4.
C6_Pool ==
    (KdeCallDone /\ arg.burnin < arg.niter) =>
        LET rows == samples.ndarray
            m    == arg.niter - arg.burnin
        IN  /\ Len(rows) = 20 * m
            /\ \A i \in 1..Len(rows) : Len(rows[i]) = 5
            /\ \A w \in 1..20 : \A s \in (arg.burnin + 1)..arg.niter :
                  rows[(w - 1) * m + (s - arg.burnin)] = chain[w][s]
            /\ ret = << Mean([i \in 1..Len(rows) |-> rows[i][5]]),
                        Std([i \in 1..Len(rows) |-> rows[i][5]]) >>

C6_Witness ==
    /\ KdeCallDone /\ arg.niter = 2 /\ arg.burnin = 1
    /\ Len(samples.ndarray) = 20
    /\ samples.ndarray[20] = chain[20][2]
    /\ chain[1][1] # chain[1][2]

\* C7: kde_predict leaves the pool as it is; the pool of an instance changes
\* only in a call of a KDE instance; and such a call reads the prior data and builds the
\* density model anew from what the data file holds at the call, whatever an
\* earlier call had loaded.
C7_PoolRetained ==
    [][/\ op' = "kde_predict" => samples' = samples
       /\ (inst /\ samples' # samples) => (op' = "__call__" /\ method = "KDE")
       /\ (op' = "__call__" /\ method = "KDE" /\ data_file' = data_file) =>
             /\ prior_data' = ReadPriorData(data_file)
             /\ kde' = MakeKde(ReadPriorData(data_file))]_vars

C7_Witness ==
    /\ op = "kde_predict" /\ HasPool /\ samples.ndarray # <<>>
    /\ ret = PoolPrediction(samples.ndarray, arg.n)
    /\ prior_data = ReadPriorData(FileB)
    /\ data_file = FileA

\* -0.5 * (y - mu)^2 / sigma^2 in floating point, for sigma >= 0
Gaussian(y, mu, sigma) ==
    IF sigma.n = 0 THEN (IF y = mu THEN NaN ELSE NegInf)
    ELSE LET v == Rat(0 - ((y - mu) * (y - mu) * sigma.d * sigma.d),
                      2 * sigma.n * sigma.n)
         IN  IF sigma.k = 0 THEN Fin(<<1, 1>>, v, <<0, 1>>)
             ELSE Fin(<<1, 1>>, <<0, 1>>, v)

\* the contribution of one observed quantity
Contribution(y, pair) ==
    IF pair[2].n < 0 THEN Zero ELSE Gaussian(y, pair[1], pair[2])

\* C8: the log-posterior at p is the log of the prior density at p plus the
\* four contributions of dnu, numax, teff and bp_rp, each
\* -0.5*(candidate - mean)^2/sigma^2 when the quantity's uncertainty is not
\* negative and exactly 0 when it is; where the prior density is zero nothing
\* is raised and the result is not finite; and no attribute of the instance
\* changes.
C8_LogPosterior ==
    [][op' = "likelihood" =>
          LET p == arg'.p
              data == Plus(Plus(Contribution(p[1], log_obs.dnu),
                                Contribution(p[2], log_obs.numax)),
                           Plus(Contribution(p[3], log_obs.teff),
                                Contribution(p[4], log_obs.bp_rp)))
          IN  /\ ret' = Plus(NpLog(Pdf(kde, p)), data)
              /\ Pdf(kde, p)[1] = 0 => ret'.kind \in {"-inf", "nan"}
              /\ self' = self]_vars

C8_Witness ==
    /\ op = "likelihood"
    /\ log_obs.teff[2].n < 0 /\ log_obs.dnu[2].n > 0 /\ log_obs.bp_rp[2].n > 0
    /\ ret.kind = "fin" /\ ret.a[1] < 0 /\ ret.b[1] < 0

StartsAt(start) ==
    \A w \in 1..20 : \A d \in 1..5 :
        (p0[w][d] - start[d] * 1000000) \in 0..999

\* C10 as stated: every walker starts at [log10(dnu), log10(numax),
\* log10(teff), bp_rp, 1.0] plus a jitter below 1e-3, whatever the
\* uncertainties of the observation are.
C10_Claim ==
    (KdeCallDone /\ p0 # <<>>) =>
        StartsAt(<<Log10(obs.dnu[1]), Log10(obs.numax[1]), Log10(obs.teff[1]),
                   obs.bp_rp[1], 1>>)

\* the start of a quantity: its log10 when its uncertainty is > 0, else its
\* value as given
StartOf(pair) == IF pair[2].n > 0 THEN Log10(pair[1]) ELSE pair[1]

\* C10, amended: every walker starts at the log-observation's values, which
\* are log10(value) for the quantities of dnu, numax, teff whose uncertainty
\* is > 0 and the value as given for those whose uncertainty is <= 0, then
\* bp_rp and 1.0, plus a jitter below 1e-3 in every dimension.
C10_Start ==
    (KdeCallDone /\ p0 # <<>>) =>
        StartsAt(<<StartOf(obs.dnu), StartOf(obs.numax), StartOf(obs.teff),
                   obs.bp_rp[1], 1>>)

C10_Witness ==
    /\ KdeCallDone /\ p0 # <<>>
    /\ obs.dnu = Pair(100, 2) /\ obs.numax = Pair(289, 0)
    /\ p0[1][1] \in 2000000..2000999
    /\ p0[1][2] \in 289000000..289000999
    /\ p0[1] # p0[2]

====
